---- MODULE Spec2Model ----
(***************************************************************************)
(* Solar-challenge cleaning pipeline (scripts/data_processing.py), its     *)
(* batch drivers (main.py) and the analyzer (scripts/analysis.py:          *)
(* summary, correlations, solar-potential metrics, comparison, ranking     *)
(* and insights), as a state machine.                                      *)
(*                                                                         *)
(* A DataFrame is [cols, dtypes, rows]: the set of column labels, their    *)
(* dtypes and the sequence of rows; a row is [idx, c]: its pandas index    *)
(* label and its cells.  A                                                 *)
(* numeric cell is <<>> (NaN) or <<x>>; a Timestamp cell is the text       *)
(* "YYYY-MM-DD HH:00:00" given by its fields <<YYYY, MM, DD, HH>>.         *)
(* None is the record [kind |-> "None"].                                   *)
(*                                                                         *)
(* Arithmetic is exact: cell values are integers and the Z-score test      *)
(* |x - mean| / std > t is evaluated in the equivalent integer form        *)
(* (n*x - S)^2 > t^2 * (n*Q - S^2), S and Q the sum and the sum of squares *)
(* of the n non-missing values (std with ddof = 0, scipy's default).       *)
(* pandas semantics are those of the 2.x line the repository's tests run   *)
(* on: fillna(inplace=True) on df[col] writes through to df.               *)
(***************************************************************************)
EXTENDS Integers, Sequences, FiniteSets, TLC

VARIABLES
    driver,           \* the entry point in control
    todo,             \* the (country, file) pairs still to be processed
    country_data,     \* the driver's result mapping, in insertion order
    pc,               \* position inside the running call
    df,               \* the table in hand (None before a load)
    cleaning_report,  \* SolarDataProcessor.cleaning_report
    exported,         \* countries whose cleaned CSV has been written
    call              \* the call in progress or last returned: args, input, result

vars == <<driver, todo, country_data, pc, df, cleaning_report, exported, call>>

-----------------------------------------------------------------------------
(* Bounds of the model *)

\* rows of a generated table beyond its padding
MaxTail == 2
\* identical leading rows of a padded table (|Z| > 3 needs at least 11 rows)
PadRows == 10

\* rows of a table generated for the solar-potential metrics
MaxGhi == 4

\* rows of a table generated for the correlations
MaxCorrRows == 3

\* numeric cell values (even, so that the median of two of them is exact)
Vals == {0, 8}
\* GHI readings of the tables generated for the analyzer: at, between and
\* beyond the thresholds 50 and 400 of the metrics, and a night-time negative
GhiVals == {-400, 0, 50, 400, 750}
\* Timestamp texts "YYYY-MM-DD HH:00:00" as <<YYYY, MM, DD, HH>>: one that
\* parses (a Sunday) and one that does not (month 13)
TsTexts == {<<2023, 1, 1, 0>>, <<2023, 13, 1, 0>>}

-----------------------------------------------------------------------------
(* Values *)

None == [kind |-> "None"]
NaN == <<>>
IsNa(cell) == cell = NaN

NumCells == {NaN} \cup {<<v>> : v \in Vals}
TsCells == TsTexts

\* the numeric columns a generated table may hold: one imputed and checked,
\* one checked but never imputed
DataCols == {"GHI", "ModA"}
TableCols == DataCols \cup {"Timestamp"}

\* default column lists of the cleaner
COLUMNS_TO_IMPUTE == <<"GHI", "DNI", "DHI", "Tamb", "WS", "RH", "BP">>
OUTLIER_COLUMNS == <<"GHI", "DNI", "DHI", "ModA", "ModB", "WS", "WSgust", "Tamb">>
Z_THRESHOLD == 3

Range(s) == {s[i] : i \in 1..Len(s)}

Put(d, k, v) == [x \in (DOMAIN d) \cup {k} |-> IF x = k THEN v ELSE d[x]]
EmptyDict == [x \in {} |-> 0]

-----------------------------------------------------------------------------
(* Tables *)

\* the cells of one generated row: any numeric cells, Timestamp text ts
CellsOf(cols, ts) ==
    {[c \in cols |-> IF c = "Timestamp" THEN ts ELSE IF c = "GHI" THEN g ELSE m] :
        g \in NumCells, m \in NumCells}

PadCells(cols) ==
    [c \in cols |-> IF c = "Timestamp" THEN <<2023, 1, 1, 0>> ELSE <<0>>]

\* read_csv gives the rows the default RangeIndex 0 .. n-1
Frame(cols, cells) ==
    [cols |-> cols,
     dtypes |-> [c \in cols |-> IF c = "Timestamp" THEN "object" ELSE "float64"],
     rows |-> [i \in 1..Len(cells) |-> [idx |-> i - 1, c |-> cells[i]]]]

\* a generated table: p padding rows, then the rows of tail
Padded(cols, p, tail) == Frame(cols, [i \in 1..p |-> PadCells(cols)] \o tail)

\* padded and empty tables over the columns the analyzer's printout reads
WeatherColSets == {{"GHI", "Tamb", "RH"}, {"GHI", "Tamb"}, {"Tamb", "RH"}}

\* the shapes of the generated tables: any non-empty set of the table
\* columns, no or PadRows padding rows, then up to MaxTail rows of any
\* numeric cells sharing one Timestamp text
TableShapes ==
    {[cols |-> cols, p |-> p, ts |-> ts, k |-> k] :
        cols \in (SUBSET TableCols) \ {{}}, p \in {0, PadRows},
        ts \in TsCells, k \in 0..MaxTail}

\* the tables without rows beyond the padding over the weather columns
WeatherShapes ==
    {[cols |-> cols, p |-> p, ts |-> <<2023, 1, 1, 0>>, k |-> 0] :
        cols \in WeatherColSets, p \in {0, PadRows}}

\* the tables of shape s
TablesOf(s) ==
    {Padded(s.cols, s.p, tail) : tail \in [1..s.k -> CellsOf(s.cols, s.ts)]}

NRows(d) == Len(d.rows)

\* df[col]: the column's cells in row order
Column(d, col) == [i \in 1..NRows(d) |-> d.rows[i].c[col]]

\* Series.dropna() followed by the values
DropNa(cells) ==
    LET F[i \in 0..Len(cells)] ==
            IF i = 0 THEN <<>>
            ELSE IF IsNa(cells[i]) THEN F[i - 1] ELSE Append(F[i - 1], cells[i][1])
    IN F[Len(cells)]

\* Series.isna().sum()
NaCount(cells) == Cardinality({i \in 1..Len(cells) : IsNa(cells[i])})

Sum(xs) ==
    LET F[i \in 0..Len(xs)] == IF i = 0 THEN 0 ELSE F[i - 1] + xs[i]
    IN F[Len(xs)]

SumSq(xs) ==
    LET F[i \in 0..Len(xs)] == IF i = 0 THEN 0 ELSE F[i - 1] + xs[i] * xs[i]
    IN F[Len(xs)]

\* the k-th smallest of xs (1 <= k <= Len(xs))
Kth(xs, k) ==
    CHOOSE x \in Range(xs) :
        /\ Cardinality({i \in 1..Len(xs) : xs[i] < x}) < k
        /\ Cardinality({i \in 1..Len(xs) : xs[i] <= x}) >= k

\* Series.median(): NaN skipped; NaN when nothing is left
Median(cells) ==
    LET xs == DropNa(cells)
        n == Len(xs)
    IN  IF n = 0 THEN NaN
        ELSE IF n % 2 = 1 THEN <<Kth(xs, (n + 1) \div 2)>>
        ELSE <<(Kth(xs, n \div 2) + Kth(xs, n \div 2 + 1)) \div 2>>

\* Series.ffill(), the strategy handle_missing_values does not use: a gap
\* takes the entry before it
FillForward(cells, value) ==
    LET F[i \in 0..Len(cells)] ==
            IF i = 0 THEN <<>>
            ELSE LET prev == F[i - 1]
                 IN  IF IsNa(cells[i]) /\ i > 1 THEN Append(prev, prev[i - 1])
                     ELSE Append(prev, cells[i])
    IN F[Len(cells)]

\* Series.fillna(value): NaN entries replaced; fillna(NaN) changes nothing
FillNa(cells, value) ==
    [i \in 1..Len(cells) |-> IF IsNa(cells[i]) THEN value ELSE cells[i]]

\* df[col] = cells
SetColumn(d, col, cells, dtype) ==
    [cols |-> d.cols \cup {col},
     dtypes |-> Put(d.dtypes, col, dtype),
     rows |-> [i \in 1..NRows(d) |->
                 [idx |-> d.rows[i].idx, c |-> Put(d.rows[i].c, col, cells[i])]]]

-----------------------------------------------------------------------------
(* SolarDataProcessor *)

\* DataFrame.dropna(subset=columns), the strategy handle_missing_values does
\* not use: the rows with a gap in a listed column are dropped
DropMissingRows(d, columns) ==
    LET listed == Range(columns) \cap d.cols
        F[i \in 0..NRows(d)] ==
            IF i = 0 THEN <<>>
            ELSE LET prev == F[i - 1]
                 IN  IF \E c \in listed : IsNa(d.rows[i].c[c]) THEN prev
                     ELSE Append(prev, d.rows[i])
    IN  [df |-> [d EXCEPT !.rows = F[NRows(d)]], missing_report |-> EmptyDict]

\* handle_missing_values: F[i] is the table and missing_report after the
\* loop has handled the first i columns of the list
HandleMissingValues(d, columns) ==
    LET F[i \in 0..Len(columns)] ==
            IF i = 0 THEN [df |-> d, missing_report |-> EmptyDict]
            ELSE LET prev == F[i - 1]
                     col == columns[i]
                     missing_count ==
                         IF col \in prev.df.cols
                         THEN NaCount(Column(prev.df, col)) ELSE 0
                 IN  IF col \in prev.df.cols /\ missing_count > 0
                     THEN [df |-> SetColumn(prev.df, col,
                                            FillNa(Column(prev.df, col),
                                                   Median(Column(prev.df, col))),
                                            prev.df.dtypes[col]),
                           missing_report |->
                               Put(prev.missing_report, col, missing_count)]
                     ELSE prev
    IN F[Len(columns)]

\* the comparison with >= in place of >, on the deviations themselves
ZFlagAtLeast(n, S, var, x, z_threshold) ==
    LET dev == n * x - S
    IN  \/ z_threshold < 0
        \/ dev * dev >= z_threshold * z_threshold * var

\* np.abs(stats.zscore(values)) > z_threshold at position i.  A constant
\* sample has zero deviation: its Z-scores are NaN and compare False.
ZFlag(n, S, var, x, z_threshold) ==
    LET dev == n * x - S
    IN  /\ var > 0
        /\ \/ z_threshold < 0
           \/ dev * dev > z_threshold * z_threshold * var

\* outlier_mask for the sample xs: n values of sum S and of variance
\* var / n^2
ZMask(xs, z_threshold) ==
    LET n == Len(xs)
        S == Sum(xs)
        var == n * SumSq(xs) - S * S
    IN  [i \in 1..n |-> ZFlag(n, S, var, xs[i], z_threshold)]

MaskAny(mask) == \E i \in 1..Len(mask) : mask[i]
MaskSum(mask) == Cardinality({i \in 1..Len(mask) : mask[i]})

\* detect_outliers: a count for every listed column that is present and
\* numeric
DetectOutliers(d, columns, z_threshold) ==
    LET counted == {col \in Range(columns) :
                       col \in d.cols /\ d.dtypes[col] \in {"float64", "int64"}}
    IN  [col \in counted |->
            MaskSum(ZMask(DropNa(Column(d, col)), z_threshold))]

Raised(exc) == [kind |-> "raised", exc |-> exc]
IsRaised(r) == "kind" \in DOMAIN r /\ r.kind = "raised"
IsNone(r) == "kind" \in DOMAIN r /\ r.kind = "None"
IsFrame(r) == "rows" \in DOMAIN r

\* df[~outlier_mask]: the mask was computed on the column with its missing
\* values dropped, so it selects rows only when it is as long as the table
BoolIndex(d, mask) ==
    IF Len(mask) # NRows(d) THEN Raised("IndexingError")
    ELSE LET F[i \in 0..NRows(d)] ==
                 IF i = 0 THEN <<>>
                 ELSE IF mask[i] THEN F[i - 1] ELSE Append(F[i - 1], d.rows[i])
         IN  [d EXCEPT !.rows = F[NRows(d)]]

\* one pass of remove_outliers' loop body, for column col
RemoveStep(d, col, z_threshold) ==
    IF col \in d.cols
    THEN LET outlier_mask == ZMask(DropNa(Column(d, col)), z_threshold)
         IN  IF MaskAny(outlier_mask) THEN BoolIndex(d, outlier_mask) ELSE d
    ELSE d

\* remove_outliers' loop: the table after the first i columns, or the
\* exception a step raised
RemoveLoop(d, columns, z_threshold) ==
    LET F[i \in 0..Len(columns)] ==
            IF i = 0 THEN d
            ELSE LET prev == F[i - 1]
                 IN  IF IsRaised(prev) THEN prev
                     ELSE RemoveStep(prev, columns[i], z_threshold)
    IN F[Len(columns)]

\* remove_outliers: the narrowed table and removed_count, or the exception
RemoveOutliers(d, columns, z_threshold) ==
    LET out == RemoveLoop(d, columns, z_threshold)
    IN  IF IsRaised(out) THEN out
        ELSE [df |-> out, removed_count |-> NRows(d) - NRows(out)]

IsLeap(y) == (y % 4 = 0 /\ y % 100 # 0) \/ y % 400 = 0

DaysInMonth(y, m) ==
    IF m = 2 THEN (IF IsLeap(y) THEN 29 ELSE 28)
    ELSE IF m \in {4, 6, 9, 11} THEN 30 ELSE 31

\* pd.to_datetime on one text: whether it parses
Parses(ts) ==
    /\ ts[2] \in 1..12
    /\ ts[3] \in 1..DaysInMonth(ts[1], ts[2])
    /\ ts[4] \in 0..23

\* days from 1970-01-01 (a Thursday) to the date
DaysSinceEpoch(y, m, d) ==
    LET YearDays[k \in 1970..y] ==
            IF k = 1970 THEN 0
            ELSE YearDays[k - 1] + (IF IsLeap(k - 1) THEN 366 ELSE 365)
        MonthDays[k \in 1..m] ==
            IF k = 1 THEN 0 ELSE MonthDays[k - 1] + DaysInMonth(y, k - 1)
    IN  YearDays[y] + MonthDays[m] + (d - 1)

\* Series.dt.dayofweek: Monday = 0 .. Sunday = 6
DayOfWeek(ts) == (DaysSinceEpoch(ts[1], ts[2], ts[3]) + 3) % 7

\* the calendar quarter of a month
SeasonByQuarter(month) == (month + 2) \div 3

Season(month) == ((month % 12) + 3) \div 3

\* process_timestamp: the table with the four derived columns, the table
\* itself without a Timestamp column, or the parser's exception; a missing
\* timestamp parses to NaT and derives missing values (in float64 columns)
ProcessTimestamp(d, timestamp_col) ==
    IF timestamp_col \in d.cols
    THEN LET ts == Column(d, timestamp_col)
             n == NRows(d)
             dtype == IF \E i \in 1..n : IsNa(ts[i]) THEN "float64" ELSE "int32"
         IN  IF \E i \in 1..n : ~IsNa(ts[i]) /\ ~Parses(ts[i])
             THEN Raised("ValueError")
             ELSE LET d1 == SetColumn(d, timestamp_col, ts, "datetime64")
                      d2 == SetColumn(d1, "Hour",
                                      [i \in 1..n |-> IF IsNa(ts[i]) THEN NaN
                                                      ELSE <<ts[i][4]>>], dtype)
                      d3 == SetColumn(d2, "Month",
                                      [i \in 1..n |-> IF IsNa(ts[i]) THEN NaN
                                                      ELSE <<ts[i][2]>>], dtype)
                      d4 == SetColumn(d3, "DayOfWeek",
                                      [i \in 1..n |-> IF IsNa(ts[i]) THEN NaN
                                                      ELSE <<DayOfWeek(ts[i])>>], dtype)
                  IN  SetColumn(d4, "Season",
                                [i \in 1..n |-> IF IsNa(ts[i]) THEN NaN
                                                ELSE <<Season(ts[i][2])>>], dtype)
    ELSE d

-----------------------------------------------------------------------------
(* SolarAnalyzer: the column guards of the single-table operations *)

NumericCols(d) == {c \in d.cols : d.dtypes[c] \in {"float64", "int64", "int32"}}

\* calculate_summary_statistics: the per-column counts of the summary, or
\* the KeyError of the unguarded df['GHI'] / df['Tamb'] in the printout
CalculateSummaryStatistics(d, country_name) ==
    IF country_name # "" /\ ("GHI" \notin d.cols \/ "Tamb" \notin d.cols)
    THEN Raised("KeyError")
    ELSE [count |-> [c \in NumericCols(d) |->
                        NRows(d) - NaCount(Column(d, c))]]

\* the pairs of values of two columns on the rows where both are present
PairsOf(d, a, b) ==
    LET F[i \in 0..NRows(d)] ==
            IF i = 0 THEN <<>>
            ELSE IF IsNa(d.rows[i].c[a]) \/ IsNa(d.rows[i].c[b]) THEN F[i - 1]
            ELSE Append(F[i - 1], <<d.rows[i].c[a][1], d.rows[i].c[b][1]>>)
    IN F[NRows(d)]

\* abs(Pearson r) >= num/den for the paired sample; an undefined r (a
\* constant side, fewer than two pairs) compares False
CorrAtLeast(pairs, num, den) ==
    LET n == Len(pairs)
        xs == [i \in 1..n |-> pairs[i][1]]
        ys == [i \in 1..n |-> pairs[i][2]]
        sxy == Sum([i \in 1..n |-> pairs[i][1] * pairs[i][2]])
        cov == n * sxy - Sum(xs) * Sum(ys)
        vx == n * SumSq(xs) - Sum(xs) * Sum(xs)
        vy == n * SumSq(ys) - Sum(ys) * Sum(ys)
    IN  /\ vx > 0
        /\ vy > 0
        /\ den * den * cov * cov >= num * num * vx * vy

-----------------------------------------------------------------------------
(* float64 scalars, exactly: the rational n/d in lowest terms, NaN, +-inf *)

AbsInt(x) == IF x < 0 THEN -x ELSE x

RECURSIVE GCD(_, _)
GCD(a, b) == IF b = 0 THEN a ELSE GCD(b, a % b)

\* the float n/d (d # 0)
Fin(n, d) ==
    LET g == GCD(AbsInt(n), AbsInt(d))
        sgn == IF d < 0 THEN -1 ELSE 1
    IN  [k |-> "fin", n |-> sgn * (n \div g), d |-> sgn * (d \div g)]

FNaN == [k |-> "nan"]
\* float('inf') for sgn = 1, float('-inf') for sgn = -1
FInf(sgn) == [k |-> "inf", sgn |-> sgn]

IsFin(x) == x.k = "fin"
IsNaNf(x) == x.k = "nan"
IsInf(x) == x.k = "inf"

\* -1, 0 or 1 for a float that is not NaN
Sign(x) ==
    IF IsInf(x) THEN x.sgn
    ELSE IF x.n > 0 THEN 1 ELSE IF x.n < 0 THEN -1 ELSE 0

FNeg(x) ==
    IF IsNaNf(x) THEN FNaN
    ELSE IF IsInf(x) THEN FInf(-x.sgn)
    ELSE Fin(-x.n, x.d)

\* x + y
FAdd(x, y) ==
    IF IsNaNf(x) \/ IsNaNf(y) THEN FNaN
    ELSE IF IsInf(x) /\ IsInf(y) THEN (IF x.sgn = y.sgn THEN x ELSE FNaN)
    ELSE IF IsInf(x) THEN x
    ELSE IF IsInf(y) THEN y
    ELSE Fin(x.n * y.d + y.n * x.d, x.d * y.d)

\* x - y
FSub(x, y) == FAdd(x, FNeg(y))

\* x * y
FMul(x, y) ==
    IF IsNaNf(x) \/ IsNaNf(y) THEN FNaN
    ELSE IF IsInf(x) \/ IsInf(y)
         THEN (IF Sign(x) = 0 \/ Sign(y) = 0 THEN FNaN
               ELSE FInf(Sign(x) * Sign(y)))
    ELSE Fin(x.n * y.n, x.d * y.d)

\* x / y on numpy floats: a zero divisor gives inf or NaN, not an exception
FDiv(x, y) ==
    IF IsNaNf(x) \/ IsNaNf(y) THEN FNaN
    ELSE IF IsInf(x) THEN (IF IsInf(y) THEN FNaN
                           ELSE FInf(x.sgn * (IF Sign(y) < 0 THEN -1 ELSE 1)))
    ELSE IF IsInf(y) THEN Fin(0, 1)
    ELSE IF y.n = 0 THEN (IF x.n = 0 THEN FNaN ELSE FInf(Sign(x)))
    ELSE Fin(x.n * y.d, x.d * y.n)

\* x < y: False as soon as one side is NaN
FLt(x, y) ==
    /\ ~IsNaNf(x)
    /\ ~IsNaNf(y)
    /\ IF IsInf(x) THEN x.sgn = -1 /\ ~(IsInf(y) /\ y.sgn = -1)
       ELSE IF IsInf(y) THEN y.sgn = 1
       ELSE x.n * y.d < y.n * x.d

\* x >= y: False as soon as one side is NaN
FGe(x, y) == ~IsNaNf(x) /\ ~IsNaNf(y) /\ ~FLt(x, y)

\* the largest r in lo..hi with r * r <= m (lo * lo <= m)
RECURSIVE RootBetween(_, _, _)
RootBetween(lo, hi, m) ==
    IF lo = hi THEN lo
    ELSE LET mid == (lo + hi + 1) \div 2
         IN  IF mid * mid <= m THEN RootBetween(mid, hi, m)
             ELSE RootBetween(lo, mid - 1, m)

ISqrt(m) == RootBetween(0, IF m < 46340 THEN m ELSE 46340, m)

\* the float x is the square of a rational
HasRoot(x) == IsFin(x) /\ x.n >= 0 /\ ISqrt(x.n * x.d) * ISqrt(x.n * x.d) = x.n * x.d

\* np.sqrt(x), exact on the squares of rationals
FSqrt(x) ==
    IF IsNaNf(x) THEN FNaN
    ELSE IF IsInf(x) THEN (IF x.sgn = 1 THEN x ELSE FNaN)
    ELSE IF x.n < 0 THEN FNaN
    ELSE Fin(ISqrt(x.n * x.d), x.d)

-----------------------------------------------------------------------------
(* SolarAnalyzer: the correlations with a target column *)

FAbs(x) ==
    IF IsNaNf(x) THEN FNaN
    ELSE IF IsInf(x) THEN FInf(1)
    ELSE Fin(AbsInt(x.n), x.d)

\* DataFrame.corr() for one pair of columns, on the rows where both are
\* present: Pearson's r, held as r * |r| (which orders as r does, and is
\* rational), NaN when a side is constant or fewer than two rows pair
Corr(pairs) ==
    LET n == Len(pairs)
        xs == [i \in 1..n |-> pairs[i][1]]
        ys == [i \in 1..n |-> pairs[i][2]]
        sxy == Sum([i \in 1..n |-> pairs[i][1] * pairs[i][2]])
        cov == n * sxy - Sum(xs) * Sum(ys)
        vx == n * SumSq(xs) - Sum(xs) * Sum(xs)
        vy == n * SumSq(ys) - Sum(ys) * Sum(ys)
    IN  IF vx = 0 \/ vy = 0 THEN FNaN
        ELSE Fin((IF cov < 0 THEN -1 ELSE 1) * cov * cov, vx * vy)

\* the orders in which the labels of set cols can be listed
Orders(cols) ==
    {p \in [1..Cardinality(cols) -> cols] :
        \A i, j \in 1..Cardinality(cols) : i # j => p[i] # p[j]}

\* the labels listed by increasing value, NaN last
SortValuesAscending(cols, corr) ==
    {p \in Orders(cols) :
        \A i \in 1..(Len(p) - 1) :
            IF IsNaNf(corr[p[i]]) THEN IsNaNf(corr[p[i + 1]])
            ELSE IsNaNf(corr[p[i + 1]]) \/ FGe(corr[p[i + 1]], corr[p[i]])}

\* Series.sort_values(ascending=False): the labels by decreasing value, NaN
\* last; the default quicksort leaves the order of equal values open
SortValues(cols, corr) ==
    {p \in Orders(cols) :
        \A i \in 1..(Len(p) - 1) :
            IF IsNaNf(corr[p[i]]) THEN IsNaNf(corr[p[i + 1]])
            ELSE IsNaNf(corr[p[i + 1]]) \/ FGe(corr[p[i]], corr[p[i + 1]])}

\* the loop over the sorted correlations: the entries other than the target
\* with abs(corr) >= num/den, in the order met
Significant(order, corr, target_column, num, den) ==
    LET F[i \in 0..Len(order)] ==
            IF i = 0 THEN <<>>
            ELSE LET prev == F[i - 1]
                     col == order[i]
                 IN  IF col # target_column
                        /\ FGe(FAbs(corr[col]), Fin(num * num, den * den))
                     THEN Append(prev, [col |-> col, corr |-> corr[col]])
                     ELSE prev
    IN F[Len(order)]

\* analyze_correlations (threshold 0.3 = 3/10): the mappings it can return,
\* each given by the sequence of its items; the empty mapping when the
\* target is absent, the KeyError of corr()[target_column] when it is not
\* numeric
AnalyzeCorrelations(d, target_column) ==
    IF target_column \notin d.cols THEN {[items |-> <<>>]}
    ELSE IF target_column \notin NumericCols(d) THEN {Raised("KeyError")}
    ELSE LET cols == NumericCols(d)
             corr == [c \in cols |-> Corr(PairsOf(d, c, target_column))]
         IN  {[items |-> Significant(p, corr, target_column, 3, 10)] :
                 p \in SortValues(cols, corr)}

-----------------------------------------------------------------------------
(* SolarAnalyzer: the solar-potential metrics and the ranking *)

\* Series.mean(): NaN for an empty sample
Mean(xs) == IF Len(xs) = 0 THEN FNaN ELSE Fin(Sum(xs), Len(xs))

\* Series.var() (ddof = 1): NaN for fewer than two values
Var(xs) ==
    LET n == Len(xs)
    IN  IF n < 2 THEN FNaN
        ELSE Fin(n * SumSq(xs) - Sum(xs) * Sum(xs), n * (n - 1))

\* Series.std() (ddof = 1)
Std(xs) == FSqrt(Var(xs))

\* Series.max(): NaN for an empty sample
Max(xs) == IF Len(xs) = 0 THEN FNaN ELSE Fin(Kth(xs, Len(xs)), 1)

\* Series.quantile(num/den), linear interpolation between the order
\* statistics around position (n - 1) * num/den; NaN for an empty sample
Quantile(xs, num, den) ==
    LET n == Len(xs)
        lo == ((n - 1) * num) \div den
        rem == ((n - 1) * num) % den
    IN  IF n = 0 THEN FNaN
        ELSE IF rem = 0 THEN Fin(Kth(xs, lo + 1), 1)
        ELSE FAdd(Fin(Kth(xs, lo + 1), 1),
                  Fin((Kth(xs, lo + 2) - Kth(xs, lo + 1)) * rem, den))

\* the standard deviation of the table's GHI sample is rational (or the
\* table has no GHI column): the tables on which the metrics are evaluated
RationalStd(d) ==
    "GHI" \in d.cols =>
        LET v == Var(DropNa(Column(d, "GHI"))) IN IsNaNf(v) \/ HasRoot(v)

\* the metrics with the hours counted from the thresholds on (>=)
MetricsFromThreshold(d) ==
    IF "GHI" \notin d.cols THEN EmptyDict
    ELSE LET ghi_data == DropNa(Column(d, "GHI"))
             mean == Mean(ghi_data)
             std == Std(ghi_data)
         IN  [average_ghi |-> mean,
              std_ghi |-> std,
              cv_ghi |-> FMul(FDiv(std, mean), Fin(100, 1)),
              peak_ghi |-> Max(ghi_data),
              peak_95th |-> Quantile(ghi_data, 95, 100),
              consistency_score |->
                  FSub(Fin(100, 1), FMul(FDiv(std, mean), Fin(100, 1))),
              operational_hours |->
                  Cardinality({i \in 1..Len(ghi_data) : ghi_data[i] >= 50}),
              high_potential_hours |->
                  Cardinality({i \in 1..Len(ghi_data) : ghi_data[i] >= 400})]

\* the metrics with the two hour thresholds exchanged
MetricsThresholdsExchanged(d) ==
    IF "GHI" \notin d.cols THEN EmptyDict
    ELSE LET ghi_data == DropNa(Column(d, "GHI"))
             mean == Mean(ghi_data)
             std == Std(ghi_data)
         IN  [average_ghi |-> mean,
              std_ghi |-> std,
              cv_ghi |-> FMul(FDiv(std, mean), Fin(100, 1)),
              peak_ghi |-> Max(ghi_data),
              peak_95th |-> Quantile(ghi_data, 95, 100),
              consistency_score |->
                  FSub(Fin(100, 1), FMul(FDiv(std, mean), Fin(100, 1))),
              operational_hours |->
                  Cardinality({i \in 1..Len(ghi_data) : ghi_data[i] > 400}),
              high_potential_hours |->
                  Cardinality({i \in 1..Len(ghi_data) : ghi_data[i] > 50})]

\* calculate_solar_potential_metrics: the empty mapping without a GHI
\* column, else the metrics of the non-missing GHI values
CalculateSolarPotentialMetrics(d) ==
    IF "GHI" \notin d.cols THEN EmptyDict
    ELSE LET ghi_data == DropNa(Column(d, "GHI"))
             mean == Mean(ghi_data)
             std == Std(ghi_data)
         IN  [average_ghi |-> mean,
              std_ghi |-> std,
              cv_ghi |-> FMul(FDiv(std, mean), Fin(100, 1)),
              peak_ghi |-> Max(ghi_data),
              peak_95th |-> Quantile(ghi_data, 95, 100),
              consistency_score |->
                  FSub(Fin(100, 1), FMul(FDiv(std, mean), Fin(100, 1))),
              operational_hours |->
                  Cardinality({i \in 1..Len(ghi_data) : ghi_data[i] > 50}),
              high_potential_hours |->
                  Cardinality({i \in 1..Len(ghi_data) : ghi_data[i] > 400})]

\* the score with the weights of average GHI and consistency exchanged
CompositeScoreConsistencyFirst(metrics) ==
    FAdd(FAdd(FAdd(FMul(metrics.average_ghi, Fin(3, 10)),
                   FMul(FSub(Fin(100, 1), metrics.cv_ghi), Fin(4, 10))),
              FMul(Fin(metrics.high_potential_hours, 1), Fin(2, 10))),
         FMul(metrics.peak_95th, Fin(1, 10)))

\* rank_countries' composite score of a country's metrics
CompositeScore(metrics) ==
    FAdd(FAdd(FAdd(FMul(metrics.average_ghi, Fin(4, 10)),
                   FMul(FSub(Fin(100, 1), metrics.cv_ghi), Fin(3, 10))),
              FMul(Fin(metrics.high_potential_hours, 1), Fin(2, 10))),
         FMul(metrics.peak_95th, Fin(1, 10)))

\* rankings[country], kept with its key
RankEntry(country, metrics) ==
    [country |-> country,
     composite_score |-> CompositeScore(metrics),
     average_ghi |-> metrics.average_ghi,
     consistency |-> FSub(Fin(100, 1), metrics.cv_ghi),
     high_potential_hours |-> metrics.high_potential_hours,
     metrics |-> metrics]

\* the loop without its `if metrics:` test: a country without metrics is
\* entered with a score of zero
RankingsScoringZero(country_data_dict) ==
    [i \in 1..Len(country_data_dict) |->
        LET metrics == CalculateSolarPotentialMetrics(country_data_dict[i].df)
        IN  IF metrics # EmptyDict
            THEN RankEntry(country_data_dict[i].country, metrics)
            ELSE [country |-> country_data_dict[i].country,
                  composite_score |-> Fin(0, 1),
                  average_ghi |-> Fin(0, 1),
                  consistency |-> Fin(0, 1),
                  high_potential_hours |-> 0,
                  metrics |-> metrics]]

\* rank_countries' first loop: an entry, in the mapping's order, for every
\* country whose metrics are a non-empty mapping
Rankings(country_data_dict) ==
    LET F[i \in 0..Len(country_data_dict)] ==
            IF i = 0 THEN <<>>
            ELSE LET prev == F[i - 1]
                     metrics ==
                         CalculateSolarPotentialMetrics(country_data_dict[i].df)
                 IN  IF metrics # EmptyDict
                     THEN Append(prev, RankEntry(country_data_dict[i].country,
                                                 metrics))
                     ELSE prev
    IN F[Len(country_data_dict)]

Reverse(a) == [i \in 1..Len(a) |-> a[Len(a) + 1 - i]]

\* the comparison list.sort makes between two items, on their keys
ISLT(x, y) == FLt(x.composite_score, y.composite_score)

\* list.sort's count_run: the length of the run the list starts with and
\* whether it is strictly descending
CountRun(a) ==
    IF Len(a) < 2 THEN [n |-> Len(a), descending |-> FALSE]
    ELSE LET descending == ISLT(a[2], a[1])
             n == CHOOSE k \in 2..Len(a) :
                      /\ \A i \in 3..k : ISLT(a[i], a[i - 1]) = descending
                      /\ k = Len(a) \/ ISLT(a[k + 1], a[k]) # descending
         IN  [n |-> n, descending |-> descending]

\* list.sort's binarysort: where the pivot goes into the sorted prefix a,
\* as the number of items left before it
RECURSIVE BinarySearch(_, _, _, _)
BinarySearch(a, pivot, l, r) ==
    IF l >= r THEN l
    ELSE LET p == l + (r - l) \div 2
         IN  IF ISLT(pivot, a[p + 1]) THEN BinarySearch(a, pivot, l, p)
             ELSE BinarySearch(a, pivot, p + 1, r)

\* list.sort on a list shorter than a merge run: the leading run, reversed
\* if descending, then binary insertion of the other items
ListSort(a) ==
    LET run == CountRun(a)
        F[i \in run.n..Len(a)] ==
            IF i = run.n
            THEN IF run.descending THEN Reverse(SubSeq(a, 1, run.n))
                 ELSE SubSeq(a, 1, run.n)
            ELSE LET prev == F[i - 1]
                     at == BinarySearch(prev, a[i], 0, Len(prev))
                 IN  SubSeq(prev, 1, at) \o <<a[i]>> \o SubSeq(prev, at + 1, Len(prev))
    IN F[Len(a)]

\* an ascending sort reversed afterwards
SortedThenReversed(items) == Reverse(ListSort(items))

\* sorted(items, key, reverse=True): the list is reversed, sorted and
\* reversed again
SortedReverse(items) == Reverse(ListSort(Reverse(items)))

\* rank_countries: the sorted rankings, in the order of the mapping returned
RankCountries(country_data_dict) == SortedReverse(Rankings(country_data_dict))

\* compare_countries_statistical's country_samples, in the mapping's order
CountrySamples(country_data_dict, metric) ==
    LET F[i \in 0..Len(country_data_dict)] ==
            IF i = 0 THEN <<>>
            ELSE LET prev == F[i - 1]
                     e == country_data_dict[i]
                 IN  IF metric \in e.df.cols
                     THEN Append(prev, [country |-> e.country,
                                        sample |-> DropNa(Column(e.df, metric))])
                     ELSE prev
    IN F[Len(country_data_dict)]

SomeEmpty(samples) == \E i \in 1..Len(samples) : Len(samples[i].sample) = 0

\* every value of every sample is the same number
AllIdentical(samples) ==
    \A i, j \in 1..Len(samples) :
        \A a \in Range(samples[i].sample), b \in Range(samples[j].sample) : a = b

\* every sample is constant
EachConstant(samples) ==
    \A i \in 1..Len(samples) :
        \A a, b \in Range(samples[i].sample) : a = b

\* scipy.stats.f_oneway: the kind of F it returns and whether its p-value
\* is below 0.05.  Degenerate samples give NaN (p NaN) or inf (p 0); the
\* p-value of a finite F is not computed here: either verdict is taken
FOneway(samples) ==
    IF SomeEmpty(samples) \/ AllIdentical(samples)
    THEN {[f_statistic |-> "nan", significant |-> FALSE]}
    ELSE IF EachConstant(samples)
    THEN (IF \A i \in 1..Len(samples) : Len(samples[i].sample) = 1
          THEN {[f_statistic |-> "nan", significant |-> FALSE]}
          ELSE {[f_statistic |-> "inf", significant |-> TRUE]})
    ELSE {[f_statistic |-> "finite", significant |-> b] : b \in BOOLEAN}

\* scipy.stats.kruskal: NaN for an empty sample; for pooled values that are
\* all identical a ValueError or, in releases that dropped it, NaN; else H,
\* with either verdict on its p-value
Kruskal(samples) ==
    IF SomeEmpty(samples)
    THEN {[h_statistic |-> "nan", significant |-> FALSE]}
    ELSE IF AllIdentical(samples)
    THEN {Raised("ValueError"), [h_statistic |-> "nan", significant |-> FALSE]}
    ELSE {[h_statistic |-> "finite", significant |-> b] : b \in BOOLEAN}

\* compare_countries_statistical: the results it can return or the
\* exception it lets through
CompareCountriesStatistical(country_data_dict, metric) ==
    LET country_samples == CountrySamples(country_data_dict, metric)
    IN  IF Len(country_samples) < 2 THEN {EmptyDict}
        ELSE {IF IsRaised(kw) THEN kw
              ELSE [countries |->
                        [i \in 1..Len(country_samples) |-> country_samples[i].country],
                    sample_sizes |->
                        [i \in 1..Len(country_samples) |->
                            Len(country_samples[i].sample)],
                    anova |-> an,
                    kruskal_wallis |-> kw] :
                  an \in FOneway(country_samples), kw \in Kruskal(country_samples)}

\* generate_insights_report: the insights it can return ("None" for a
\* top_country of None) or the exception of the comparison
GenerateInsightsReport(country_data_dict) ==
    LET country_metrics ==
            [i \in 1..Len(country_data_dict) |->
                [country |-> country_data_dict[i].country,
                 metrics |->
                     CalculateSolarPotentialMetrics(country_data_dict[i].df)]]
        rankings == RankCountries(country_data_dict)
    IN  {IF IsRaised(statistical_results) THEN statistical_results
         ELSE [top_country |->
                   IF Len(rankings) > 0 THEN rankings[1].country ELSE "None",
               statistical_significance |->
                   IF "anova" \in DOMAIN statistical_results
                   THEN statistical_results.anova.significant ELSE FALSE,
               country_metrics |-> country_metrics,
               rankings |-> rankings,
               statistical_tests |-> statistical_results] :
            statistical_results \in
                CompareCountriesStatistical(country_data_dict, "GHI")}

-----------------------------------------------------------------------------
(* Direct calls on a processor and an analyzer holding one table *)

ZThresholds == {1, Z_THRESHOLD}
ImputeLists == {COLUMNS_TO_IMPUTE, <<"ModA", "GHI">>}
OutlierLists == {OUTLIER_COLUMNS, <<"ModA", "GHI">>}

NoCall == [op |-> "none"]

InitApi ==
    /\ driver = "api"
    /\ todo = <<>>
    /\ country_data = <<>>
    /\ pc = "api"
    /\ \E s \in TableShapes \cup WeatherShapes : df \in TablesOf(s)
    /\ cleaning_report = EmptyDict
    /\ exported = {}
    /\ call = NoCall

ApiFrame == UNCHANGED <<driver, todo, country_data, exported>>

ApiHandleMissingValues ==
    /\ pc = "api"
    /\ \E columns \in ImputeLists :
          \E r \in {HandleMissingValues(df, columns)} :
              /\ df' = r.df
              /\ cleaning_report' =
                     Put(cleaning_report, "missing_values", r.missing_report)
              /\ call' = [op |-> "handle_missing_values", columns |-> columns,
                          input |-> df, result |-> r.df]
    /\ pc' = "api_returned"
    /\ ApiFrame

ApiDetectOutliers ==
    /\ pc = "api"
    /\ \E columns \in OutlierLists, z \in ZThresholds :
          call' = [op |-> "detect_outliers", columns |-> columns,
                   z_threshold |-> z, input |-> df,
                   result |-> DetectOutliers(df, columns, z)]
    /\ pc' = "api_returned"
    /\ UNCHANGED <<df, cleaning_report>>
    /\ ApiFrame

\* remove_outliers adding its count to the report's instead of replacing it
RemoveCallAccumulating(columns, z, first) ==
    \E r \in {RemoveOutliers(df, columns, z)} :
        /\ df' = IF IsRaised(r) THEN df ELSE r.df
        /\ cleaning_report' =
               IF IsRaised(r) THEN cleaning_report
               ELSE Put(cleaning_report, "outliers_removed",
                        r.removed_count +
                            IF "outliers_removed" \in DOMAIN cleaning_report
                            THEN cleaning_report["outliers_removed"] ELSE 0)
        /\ call' = [op |-> "remove_outliers", columns |-> columns,
                    z_threshold |-> z, input |-> df, result |-> r,
                    first |-> first]

\* remove_outliers(df, columns, z): on an exception the caller keeps its table
\* and the report is not written
RemoveCall(columns, z, first) ==
    \E r \in {RemoveOutliers(df, columns, z)} :
        /\ df' = IF IsRaised(r) THEN df ELSE r.df
        /\ cleaning_report' =
               IF IsRaised(r) THEN cleaning_report
               ELSE Put(cleaning_report, "outliers_removed", r.removed_count)
        /\ call' = [op |-> "remove_outliers", columns |-> columns,
                    z_threshold |-> z, input |-> df, result |-> r,
                    first |-> first]

ApiRemoveOutliers ==
    /\ pc = "api"
    /\ \E columns \in OutlierLists, z \in ZThresholds :
          RemoveCall(columns, z, NoCall)
    /\ pc' = "api_returned"
    /\ ApiFrame

\* a second call with the arguments of the first, on the table it returned
ApiRemoveOutliersAgain ==
    /\ pc = "api_returned"
    /\ call.op = "remove_outliers"
    /\ ~IsRaised(call.result)
    /\ RemoveCall(call.columns, call.z_threshold,
                  [op |-> call.op, removed_count |-> call.result.removed_count])
    /\ pc' = "api_repeated"
    /\ ApiFrame

ApiProcessTimestamp ==
    /\ pc = "api"
    /\ \E r \in {ProcessTimestamp(df, "Timestamp")} :
           /\ df' = IF IsRaised(r) THEN df ELSE r
           /\ call' = [op |-> "process_timestamp", input |-> df, result |-> r]
    /\ pc' = "api_returned"
    /\ UNCHANGED cleaning_report
    /\ ApiFrame

ApiSummaryStatistics ==
    /\ pc = "api"
    /\ \E country_name \in {"", "Benin"} :
          call' = [op |-> "calculate_summary_statistics",
                   country_name |-> country_name, input |-> df,
                   result |-> CalculateSummaryStatistics(df, country_name)]
    /\ pc' = "api_returned"
    /\ UNCHANGED <<df, cleaning_report>>
    /\ ApiFrame

ApiAnalyzeCorrelations ==
    /\ pc = "api"
    /\ \E r \in AnalyzeCorrelations(df, "GHI") :
           call' = [op |-> "analyze_correlations", input |-> df, result |-> r]
    /\ pc' = "api_returned"
    /\ UNCHANGED <<df, cleaning_report>>
    /\ ApiFrame

ApiSolarPotentialMetrics ==
    /\ pc = "api"
    /\ RationalStd(df)
    /\ call' = [op |-> "calculate_solar_potential_metrics", input |-> df,
                result |-> CalculateSolarPotentialMetrics(df)]
    /\ pc' = "api_returned"
    /\ UNCHANGED <<df, cleaning_report>>
    /\ ApiFrame

NextApi ==
    \/ ApiHandleMissingValues
    \/ ApiDetectOutliers
    \/ ApiRemoveOutliers
    \/ ApiRemoveOutliersAgain
    \/ ApiProcessTimestamp
    \/ ApiSummaryStatistics
    \/ ApiAnalyzeCorrelations
    \/ ApiSolarPotentialMetrics

SpecApi == InitApi /\ [][NextApi]_vars

-----------------------------------------------------------------------------
(* clean_solar_data under its drivers *)

\* config.settings.COUNTRIES, in key order
COUNTRIES == <<"Benin", "Sierra_Leone", "Togo">>

MissingFile == [kind |-> "missing"]
UnparseableFile == [kind |-> "unparseable"]
CsvFile(t) == [kind |-> "csv", table |-> t]

\* rows of the batch scenarios' tables, after the padding
ScenarioRow(kind, cols) ==
    [c \in cols |->
        IF kind = "gap" /\ c = "ModA" THEN NaN
        ELSE IF kind = "peak" /\ c = "ModA" THEN <<8>>
        ELSE IF kind = "bad_ts" /\ c = "Timestamp" THEN <<2023, 13, 1, 0>>
        ELSE PadCells(cols)[c]]

\* what a batch run may find per country: no file, a file that does not
\* parse, and padded tables that clean without or with a removal, that hold
\* a gap and an outlier in a column the pipeline does not impute, that hold a
\* Timestamp text that does not parse, or that lack the Timestamp column
BatchTails == {<<"good">>, <<"peak">>, <<"gap", "peak">>, <<"bad_ts">>}

BatchFiles ==
    {MissingFile, UnparseableFile} \cup
    {CsvFile(Padded(cols, PadRows,
                    [i \in 1..Len(tail) |-> ScenarioRow(tail[i], cols)])) :
        cols \in {TableCols, DataCols}, tail \in BatchTails}

\* the steps with removal ahead of detection
RemoveBeforeDetect(p) ==
    CASE p = "load" -> "impute"
      [] p = "impute" -> "remove"
      [] p = "remove" -> "detect"
      [] p = "detect" -> "timestamp"
      [] p = "timestamp" -> "export"
      [] p = "export" -> "return"

\* the order of clean_solar_data's steps
PipelineNext(p) ==
    CASE p = "load" -> "impute"
      [] p = "impute" -> "detect"
      [] p = "detect" -> "remove"
      [] p = "remove" -> "timestamp"
      [] p = "timestamp" -> "export"
      [] p = "export" -> "return"

\* visualization.create_analysis_report: the time-series plot reads
\* df['Timestamp'] for every default metric the table holds
CreateAnalysisReport(d) ==
    IF "Timestamp" \notin d.cols /\ d.cols \cap {"GHI", "Tamb", "DNI", "WS"} # {}
    THEN Raised("KeyError")
    ELSE d

Init ==
    /\ driver = "load_and_clean_data"
    /\ todo = <<"Benin">>
    /\ country_data = <<>>
    /\ pc = "idle"
    /\ df = None
    /\ cleaning_report = EmptyDict
    /\ exported = {}
    /\ call = NoCall

InitBatch ==
    /\ driver \in {"process_all_countries", "batch_process_countries"}
    /\ todo = COUNTRIES
    /\ country_data = <<>>
    /\ pc = "idle"
    /\ df = None
    /\ cleaning_report = EmptyDict
    /\ exported = {}
    /\ call = NoCall

\* a processor is constructed and clean_solar_data called on the file
StartClean(file, export_path) ==
    /\ pc' = "load"
    /\ call' = [op |-> "clean_solar_data", country |-> Head(todo),
                file |-> file, export_path |-> export_path]
    /\ cleaning_report' = EmptyDict
    /\ UNCHANGED todo

\* the driver turns to its next country.  load_and_clean_data is handed any
\* file, with or without an export path ("" for none); the batch drivers
\* skip a country whose file does not exist and export the others under
\* the country's name
Begin ==
    /\ pc = "idle"
    /\ todo # <<>>
    /\ IF driver = "load_and_clean_data"
       THEN \E export_path \in {"", "cleaned.csv"} :
                \/ \E file \in {MissingFile, UnparseableFile} :
                      StartClean(file, export_path)
                \/ \E s \in TableShapes \cup WeatherShapes :
                      \E t \in TablesOf(s) : StartClean(CsvFile(t), export_path)
       ELSE \E file \in BatchFiles :
                IF file.kind = "missing"
                THEN /\ todo' = Tail(todo)
                     /\ UNCHANGED <<pc, call, cleaning_report>>
                ELSE StartClean(file, Head(todo))
    /\ df' = None
    /\ UNCHANGED <<driver, country_data, exported>>

\* load_data, and clean_solar_data's return on None
LoadData ==
    /\ pc = "load"
    /\ IF call.file.kind = "csv"
       THEN /\ df' = call.file.table
            /\ pc' = PipelineNext(pc)
       ELSE /\ df' = None
            /\ pc' = "return"
    /\ UNCHANGED <<driver, todo, country_data, cleaning_report, exported, call>>

Impute ==
    /\ pc = "impute"
    /\ \E r \in {HandleMissingValues(df, COLUMNS_TO_IMPUTE)} :
           /\ df' = r.df
           /\ cleaning_report' =
                  Put(cleaning_report, "missing_values", r.missing_report)
    /\ pc' = PipelineNext(pc)
    /\ UNCHANGED <<driver, todo, country_data, exported, call>>

Detect ==
    /\ pc = "detect"
    /\ cleaning_report' =
           Put(cleaning_report, "outliers_detected",
               DetectOutliers(df, OUTLIER_COLUMNS, Z_THRESHOLD))
    /\ pc' = PipelineNext(pc)
    /\ UNCHANGED <<driver, todo, country_data, df, exported, call>>

\* an exception leaves clean_solar_data and, no driver catching it, the run
Remove ==
    /\ pc = "remove"
    /\ \E r \in {RemoveOutliers(df, OUTLIER_COLUMNS, Z_THRESHOLD)} :
           IF IsRaised(r)
           THEN /\ pc' = "crashed"
                /\ UNCHANGED <<df, cleaning_report>>
           ELSE /\ df' = r.df
                /\ cleaning_report' =
                       Put(cleaning_report, "outliers_removed", r.removed_count)
                /\ pc' = PipelineNext(pc)
    /\ UNCHANGED <<driver, todo, country_data, exported, call>>

DeriveTime ==
    /\ pc = "timestamp"
    /\ \E r \in {ProcessTimestamp(df, "Timestamp")} :
           IF IsRaised(r)
           THEN /\ pc' = "crashed"
                /\ UNCHANGED df
           ELSE /\ df' = r
                /\ pc' = PipelineNext(pc)
    /\ UNCHANGED <<driver, todo, country_data, cleaning_report, exported, call>>

\* the export step without its test of export_path
ExportAlways ==
    /\ pc = "export"
    /\ exported' = exported \cup {call.export_path}
    /\ pc' = PipelineNext(pc)
    /\ UNCHANGED <<driver, todo, country_data, df, cleaning_report, call>>

\* df.to_csv(export_path) when an export path was given
Export ==
    /\ pc = "export"
    /\ exported' = IF call.export_path # ""
                   THEN exported \cup {call.export_path} ELSE exported
    /\ pc' = PipelineNext(pc)
    /\ UNCHANGED <<driver, todo, country_data, df, cleaning_report, call>>

Entry(country, d) == [country |-> country, df |-> d]

\* clean_solar_data has returned df (None after a failed load): what the
\* driver does with it
Finish ==
    /\ pc = "return"
    /\ CASE driver = "load_and_clean_data" ->
              /\ pc' = "idle"
              /\ UNCHANGED country_data
         [] driver = "batch_process_countries" ->
              /\ pc' = "idle"
              /\ country_data' = Append(country_data, Entry(call.country, df))
         [] driver = "process_all_countries" ->
              IF IsNone(df)
              THEN /\ pc' = "idle"
                   /\ UNCHANGED country_data
              ELSE IF IsRaised(CreateAnalysisReport(df))
              THEN /\ pc' = "crashed"
                   /\ UNCHANGED country_data
              ELSE /\ pc' = "idle"
                   /\ country_data' = Append(country_data, Entry(call.country, df))
    /\ todo' = IF pc' = "crashed" THEN todo ELSE Tail(todo)
    /\ UNCHANGED <<driver, df, cleaning_report, exported, call>>

Next ==
    \/ Begin
    \/ LoadData
    \/ Impute
    \/ Detect
    \/ Remove
    \/ DeriveTime
    \/ Export
    \/ Finish

Spec == Init /\ [][Next]_vars

SpecBatch == InitBatch /\ [][Next]_vars

-----------------------------------------------------------------------------
(* calculate_solar_potential_metrics on generated GHI tables *)

GhiCells == {NaN} \cup {<<v>> : v \in GhiVals}

\* the table with the GHI cells ghi (when it has the column) and a Tamb
\* column of zeros (when it has that one)
GhiTable(cols, ghi) ==
    Frame(cols, [i \in 1..Len(ghi) |->
                   [c \in cols |-> IF c = "GHI" THEN ghi[i] ELSE <<0>>]])

InitMetrics ==
    /\ driver = "analyzer"
    /\ todo = <<>>
    /\ country_data = <<>>
    /\ pc = "metrics"
    /\ \E cols \in {{"GHI"}, {"Tamb"}, {"GHI", "Tamb"}}, k \in 0..MaxGhi :
          \E ghi \in [1..k -> GhiCells] :
              /\ df = GhiTable(cols, ghi)
              /\ RationalStd(df)
    /\ cleaning_report = EmptyDict
    /\ exported = {}
    /\ call = NoCall

MetricsCall ==
    /\ pc = "metrics"
    /\ call' = [op |-> "calculate_solar_potential_metrics", input |-> df,
                result |-> CalculateSolarPotentialMetrics(df)]
    /\ pc' = "metrics_returned"
    /\ UNCHANGED <<driver, todo, country_data, df, cleaning_report, exported>>

NextMetrics == MetricsCall

SpecMetrics == InitMetrics /\ [][NextMetrics]_vars

-----------------------------------------------------------------------------
(* process_timestamp over the calendar *)

\* Timestamp texts of two years (one of them a leap year), every month,
\* three days and three hours
TimeYears == {2023, 2024}
TimeDays == {1, 15, 28}
TimeHours == {0, 12, 23}
TimeTexts ==
    {<<y, m, d, h>> : y \in TimeYears, m \in 1..12, d \in TimeDays, h \in TimeHours}

\* the Timestamp cells of a first row: a text that parses, one that does
\* not, or an empty cell; and of a second row
FirstTimeCells == TimeTexts \cup {<<2023, 13, 1, 0>>, NaN}
SecondTimeCells == {<<2024, 2, 29, 23>>, NaN}

\* the table with the Timestamp cells ts (when it has the column) and a GHI
\* column of zeros (when it has that one)
TimeTable(cols, ts) ==
    Frame(cols, [i \in 1..Len(ts) |->
                   [c \in cols |-> IF c = "Timestamp" THEN ts[i] ELSE <<0>>]])

InitTime ==
    /\ driver = "processor"
    /\ todo = <<>>
    /\ country_data = <<>>
    /\ pc = "time"
    /\ \E cols \in {{"Timestamp"}, {"Timestamp", "GHI"}, {"GHI"}} :
          \/ \E t \in FirstTimeCells : df = TimeTable(cols, <<t>>)
          \/ \E t \in FirstTimeCells, u \in SecondTimeCells :
                df = TimeTable(cols, <<t, u>>)
    /\ cleaning_report = EmptyDict
    /\ exported = {}
    /\ call = NoCall

TimeCall ==
    /\ pc = "time"
    /\ \E r \in {ProcessTimestamp(df, "Timestamp")} :
           /\ df' = IF IsRaised(r) THEN df ELSE r
           /\ call' = [op |-> "process_timestamp", input |-> df, result |-> r]
    /\ pc' = "time_returned"
    /\ UNCHANGED <<driver, todo, country_data, cleaning_report, exported>>

NextTime == TimeCall

SpecTime == InitTime /\ [][NextTime]_vars

-----------------------------------------------------------------------------
(* analyze_correlations on generated tables *)

\* the cells of the columns compared with the target
CorrCells == {NaN, <<0>>, <<8>>}

\* the GHI cells of a table of k rows: 0, 3, 8, 15, ...; the same with the
\* second reading missing; or the same reading on every row
CorrTargets(k) ==
    {[i \in 1..k |-> <<i * i - 1>>],
     [i \in 1..k |-> IF i = 2 THEN NaN ELSE <<i * i - 1>>],
     [i \in 1..k |-> <<8>>]}

\* the table with GHI cells ghi, ModA cells a, Tamb cells b and a parsed
\* Timestamp text, as far as it has these columns
CorrTable(cols, ghi, a, b) ==
    Frame(cols, [i \in 1..Len(ghi) |->
                   [c \in cols |-> IF c = "GHI" THEN ghi[i]
                                   ELSE IF c = "ModA" THEN a[i]
                                   ELSE IF c = "Tamb" THEN b[i]
                                   ELSE <<2023, 1, 1, 0>>]])

InitCorr ==
    /\ driver = "analyzer"
    /\ todo = <<>>
    /\ country_data = <<>>
    /\ pc = "corr"
    /\ \E cols \in {{"GHI", "ModA", "Tamb"}, {"GHI", "ModA", "Timestamp"},
                    {"ModA", "Tamb"}},
          k \in 0..MaxCorrRows :
          \E ghi \in CorrTargets(k), a \in [1..k -> CorrCells],
             b \in [1..k -> CorrCells] :
              /\ "Tamb" \notin cols => b = [i \in 1..k |-> NaN]
              /\ "GHI" \notin cols => ghi = [i \in 1..k |-> <<8>>]
              /\ df = CorrTable(cols, ghi, a, b)
    /\ cleaning_report = EmptyDict
    /\ exported = {}
    /\ call = NoCall

CorrCall ==
    /\ pc = "corr"
    /\ \E target_column \in {"GHI", "Tamb"} :
          \E r \in AnalyzeCorrelations(df, target_column) :
              call' = [op |-> "analyze_correlations", input |-> df,
                       target_column |-> target_column, result |-> r]
    /\ pc' = "corr_returned"
    /\ UNCHANGED <<driver, todo, country_data, df, cleaning_report, exported>>

NextCorr == CorrCall

SpecCorr == InitCorr /\ [][NextCorr]_vars

-----------------------------------------------------------------------------
(* The analyzer on a mapping of country tables *)

\* GHI columns of the countries' tables: missing throughout, a single
\* reading, a zero mean with and without spread, and samples with a
\* positive mean, two of them with and without a gap
RankSamples ==
    {<<NaN>>, <<(<<400>>)>>, <<(<<-400>>), <<0>>, <<400>>>>, <<(<<0>>), <<0>>>>,
     <<(<<50>>), <<400>>, <<750>>>>, <<NaN, <<50>>, <<400>>, <<750>>>>,
     <<(<<750>>), <<750>>>>, <<(<<400>>), <<400>>, <<400>>>>}

\* the tables a country may come with: one without a GHI column, and the
\* samples above
RankTables ==
    {GhiTable({"Tamb"}, <<(<<0>>)>>)} \cup {GhiTable({"GHI"}, ghi) : ghi \in RankSamples}

\* the orders in which k countries can be keys of the mapping
KeyOrders(k) ==
    {ks \in [1..k -> Range(COUNTRIES)] : \A i, j \in 1..k : i # j => ks[i] # ks[j]}

InitAnalysis ==
    /\ driver = "analyzer"
    /\ todo = <<>>
    /\ \E k \in 0..Len(COUNTRIES) :
          \E ks \in KeyOrders(k), ts \in [1..k -> RankTables] :
              country_data = [i \in 1..k |-> Entry(ks[i], ts[i])]
    /\ pc = "analysis"
    /\ df = None
    /\ cleaning_report = EmptyDict
    /\ exported = {}
    /\ call = NoCall

AnalysisFrame == UNCHANGED <<driver, todo, country_data, df, cleaning_report, exported>>

RankCall ==
    /\ pc = "analysis"
    /\ call' = [op |-> "rank_countries", result |-> RankCountries(country_data)]
    /\ pc' = "analysis_returned"
    /\ AnalysisFrame

CompareCall ==
    /\ pc = "analysis"
    /\ \E metric \in {"GHI", "Tamb"} :
          \E r \in CompareCountriesStatistical(country_data, metric) :
              call' = [op |-> "compare_countries_statistical",
                       metric |-> metric, result |-> r]
    /\ pc' = "analysis_returned"
    /\ AnalysisFrame

InsightsCall ==
    /\ pc = "analysis"
    /\ \E r \in GenerateInsightsReport(country_data) :
          call' = [op |-> "generate_insights_report", result |-> r]
    /\ pc' = "analysis_returned"
    /\ AnalysisFrame

NextAnalysis ==
    \/ RankCall
    \/ CompareCall
    \/ InsightsCall

SpecAnalysis == InitAnalysis /\ [][NextAnalysis]_vars

-----------------------------------------------------------------------------
(* The entry points: main.main and run_pipeline.run_quick_start *)

\* the GHI columns of the cleaned tables the entry points are run on
MainSamples ==
    {<<(<<50>>), <<400>>, <<750>>>>, <<(<<400>>), <<400>>, <<400>>>>, <<NaN>>}

MainTables == {GhiTable({"GHI"}, ghi) : ghi \in MainSamples}

\* the place of a country among the keys of settings.COUNTRIES
CountryPlace(country) == CHOOSE i \in 1..Len(COUNTRIES) : COUNTRIES[i] = country

\* what process_all_countries can return: a cleaned table for some of the
\* countries, in the order of COUNTRIES
CleanedMappings ==
    {[i \in 1..Len(ks) |-> Entry(ks[i], ts[i])] :
        <<ks, ts>> \in
            UNION {{<<ks, ts>> : ts \in [1..k -> MainTables],
                    ks \in {o \in KeyOrders(k) :
                               \A i, j \in 1..k :
                                   i < j => CountryPlace(o[i]) < CountryPlace(o[j])}} :
                   k \in 0..Len(COUNTRIES)}}

\* the command lines of main.py: --country (a known or an unknown country,
\* "" when not given), --all, --analyze
MainArgs ==
    {[country |-> c, all |-> a, analyze |-> z] :
        c \in {"", "Benin", "Atlantis"}, a \in BOOLEAN, z \in BOOLEAN}

\* run_comparative_analysis: None below two countries, else what
\* generate_insights_report returns or raises
RunComparativeAnalysis(country_data_dict) ==
    IF Len(country_data_dict) < 2 THEN {None}
    ELSE GenerateInsightsReport(country_data_dict)

\* `if insights:` for None or a bundle
Truthy(insights) == ~IsNone(insights)

FinalReport == "final_analysis_report"

InitMain ==
    /\ driver \in {"main", "run_quick_start"}
    /\ todo = <<>>
    /\ country_data = <<>>
    /\ pc = "entry"
    /\ df = None
    /\ cleaning_report = EmptyDict
    /\ exported = {}
    /\ IF driver = "main"
       THEN \E args \in MainArgs :
                call = [op |-> "main", args |-> args, insights |-> None]
       ELSE call = [op |-> "run_quick_start", insights |-> None]

MainFrame == UNCHANGED <<driver, todo, df, cleaning_report>>

\* the processing step: main's branches on its arguments, the quick start's
\* process_all_countries; an exception of the cleaning ends main and makes
\* the quick start return False
ProcessData ==
    /\ pc = "entry"
    /\ \/ /\ driver = "main"
          /\ call.args.country # ""
          /\ \/ /\ call.args.country \in Range(COUNTRIES)
                /\ \E t \in MainTables :
                      country_data' = <<Entry(call.args.country, t)>>
             \/ country_data' = <<>>
          /\ pc' = "processed"
       \/ /\ driver = "main"
          /\ call.args.country = ""
          /\ IF call.args.all \/ ~call.args.analyze
             THEN country_data' \in CleanedMappings
             ELSE country_data' = <<>>
          /\ pc' = "processed"
       \/ /\ driver = "run_quick_start"
          /\ country_data' \in CleanedMappings
          /\ pc' = "processed"
       \/ /\ IF driver = "main"
             THEN call.args.country # "" \/ call.args.all \/ ~call.args.analyze
             ELSE TRUE
          /\ country_data' = <<>>
          /\ pc' = IF driver = "main" THEN "crashed" ELSE "failed"
    /\ UNCHANGED <<call, exported>>
    /\ MainFrame

\* the analysis step: main runs it when asked to or when it has data, the
\* quick start always
Analyze ==
    /\ pc = "processed"
    /\ IF driver = "main" /\ country_data = <<>> /\ ~call.args.analyze
       THEN /\ pc' = "done"
            /\ UNCHANGED call
       ELSE \E insights \in RunComparativeAnalysis(country_data) :
                IF IsRaised(insights)
                THEN /\ pc' = IF driver = "main" THEN "crashed" ELSE "failed"
                     /\ UNCHANGED call
                ELSE /\ pc' = "analyzed"
                     /\ call' = [call EXCEPT !.insights = insights]
    /\ UNCHANGED <<country_data, exported>>
    /\ MainFrame

\* the report step: main calls generate_final_report `if insights:`, the
\* quick start calls it whatever the insights; generate_final_report opens
\* and writes the file in either case
Report ==
    /\ pc = "analyzed"
    /\ exported' = IF driver = "run_quick_start" \/ Truthy(call.insights)
                   THEN exported \cup {FinalReport} ELSE exported
    /\ pc' = "done"
    /\ UNCHANGED <<country_data, call>>
    /\ MainFrame

NextMain ==
    \/ ProcessData
    \/ Analyze
    \/ Report

SpecMain == InitMain /\ [][NextMain]_vars

-----------------------------------------------------------------------------
(* Properties *)

ApiReturned(op) == pc \in {"api_returned", "api_repeated"} /\ call.op = op

\* the value at row i of column col is an outlier of the column's
\* non-missing values
OutlierAt(d, col, i, z_threshold) ==
    /\ ~IsNa(d.rows[i].c[col])
    /\ LET xs == DropNa(Column(d, col))
           n == Len(xs)
           S == Sum(xs)
           var == n * SumSq(xs) - S * S
           dev == n * d.rows[i].c[col][1] - S
       IN  var > 0 /\ dev * dev > z_threshold * z_threshold * var

HasOutlier(d, col, z_threshold) ==
    col \in d.cols /\ \E i \in 1..NRows(d) : OutlierAt(d, col, i, z_threshold)

\* the table without the rows holding an outlier of column col
Narrowed(d, col, z_threshold) ==
    IF col \in d.cols
    THEN LET F[i \in 0..NRows(d)] ==
                 IF i = 0 THEN <<>>
                 ELSE IF OutlierAt(d, col, i, z_threshold) THEN F[i - 1]
                 ELSE Append(F[i - 1], d.rows[i])
         IN  [d EXCEPT !.rows = F[NRows(d)]]
    ELSE d

\* narrowing by the columns of the list, one after the other
NarrowedInOrder(d, columns, z_threshold) ==
    LET F[i \in 0..Len(columns)] ==
            IF i = 0 THEN d
            ELSE LET prev == F[i - 1] IN Narrowed(prev, columns[i], z_threshold)
    IN F[Len(columns)]

\* C1: remove_outliers returns the table narrowed column by column in list
\* order, each column's Z-scores recomputed on the table as narrowed so far,
\* and returns strictly fewer rows when a checked column holds an outlier.
C1_SequentialNarrowing ==
    ApiReturned("remove_outliers") =>
        /\ ~IsRaised(call.result)
        /\ call.result.df =
               NarrowedInOrder(call.input, call.columns, call.z_threshold)
        /\ (\E k \in 1..Len(call.columns) :
                HasOutlier(call.input, call.columns[k], call.z_threshold))
              => NRows(call.result.df) < NRows(call.input)

\* C2: handle_missing_values and process_timestamp keep the row count,
\* remove_outliers never raises it, and the table clean_solar_data returns
\* has at most the rows of the table it loaded.
C2_RowsNeverGained ==
    /\ [][/\ (pc \in {"impute", "timestamp"} /\ pc' # "crashed")
               => NRows(df') = NRows(df)
          /\ (pc = "remove" /\ pc' # "crashed") => NRows(df') <= NRows(df)]_vars
    /\ []((pc = "return" /\ IsFrame(df)) => NRows(df) <= NRows(call.file.table))

\* a run that removed rows and derived the time features has returned
C2_Witness ==
    /\ pc = "return"
    /\ IsFrame(df)
    /\ NRows(df) < NRows(call.file.table)
    /\ "Hour" \in df.cols
    /\ cleaning_report["missing_values"] # EmptyDict

\* C3 as claimed: a second remove_outliers call with the same arguments on
\* the table the first returned removes nothing and returns that table.
C3_Idempotent ==
    pc = "api_repeated" =>
        /\ ~IsRaised(call.result)
        /\ call.result.removed_count = 0
        /\ call.result.df = call.input

\* C3 amended: the second call removes nothing and returns the table
\* unchanged whenever no checked column of the table the first call returned
\* holds a value with |Z| above the threshold.
C3_IdempotentWhenClean ==
    (/\ pc = "api_repeated"
     /\ \A k \in 1..Len(call.columns) :
            ~HasOutlier(call.input, call.columns[k], call.z_threshold))
    => /\ ~IsRaised(call.result)
       /\ call.result.removed_count = 0
       /\ call.result.df = call.input
       /\ cleaning_report["outliers_removed"] = 0

\* the first call removed rows, some checked column holds a gap, and the
\* repeat on the clean result removed none
C3_Witness ==
    /\ pc = "api_repeated"
    /\ call.first.removed_count > 0
    /\ \A k \in 1..Len(call.columns) :
           ~HasOutlier(call.input, call.columns[k], call.z_threshold)
    /\ "ModA" \in call.input.cols
    /\ \E i \in 1..NRows(call.input) : IsNa(call.input.rows[i].c["ModA"])
    /\ ~IsRaised(call.result)
    /\ call.result.removed_count = 0

\* m is the median of the non-empty sample xs: the midpoint of its lower
\* and upper middle values
IsMedianOf(xs, m) ==
    LET n == Len(xs)
        below(v) == Cardinality({i \in 1..n : xs[i] < v})
        above(v) == Cardinality({i \in 1..n : xs[i] > v})
    IN  \E lo \in Range(xs), hi \in Range(xs) :
            /\ 2 * m = lo + hi
            /\ below(lo) <= (n - 1) \div 2 /\ above(lo) <= n \div 2
            /\ below(hi) <= n \div 2 /\ above(hi) <= (n - 1) \div 2

\* column col of the table handle_missing_values was given is in its list,
\* present, and holds a value
Imputable(col) ==
    /\ ApiReturned("handle_missing_values")
    /\ col \in Range(call.columns) \cap call.input.cols
    /\ NaCount(Column(call.input, col)) < NRows(call.input)

\* what handle_missing_values did to an imputable column: no gap is left,
\* every gap holds the median of the values present before the call, every
\* other entry is unchanged
ImputedRight(col) ==
    /\ NaCount(Column(df, col)) = 0
    /\ NRows(df) = NRows(call.input)
    /\ \A i \in 1..NRows(df) :
          IF IsNa(call.input.rows[i].c[col])
          THEN IsMedianOf(DropNa(Column(call.input, col)), df.rows[i].c[col][1])
          ELSE df.rows[i].c[col] = call.input.rows[i].c[col]

\* C4 as claimed: an imputable column is imputed as above and
\* cleaning_report['missing_values'][column] is its count of gaps.
C4_ImputedAndCounted ==
    \A col \in DataCols \cup {"Tamb", "RH"} :
        Imputable(col) =>
            /\ ImputedRight(col)
            /\ col \in DOMAIN cleaning_report["missing_values"]
            /\ cleaning_report["missing_values"][col] =
                   NaCount(Column(call.input, col))

\* C4 amended: the count is recorded for a column that had gaps; a column
\* that had none gets no entry in cleaning_report['missing_values'].
C4_ImputedAndCountedIfAny ==
    \A col \in DataCols \cup {"Tamb", "RH"} :
        Imputable(col) =>
            /\ ImputedRight(col)
            /\ IF NaCount(Column(call.input, col)) > 0
               THEN /\ col \in DOMAIN cleaning_report["missing_values"]
                    /\ cleaning_report["missing_values"][col] =
                           NaCount(Column(call.input, col))
               ELSE col \notin DOMAIN cleaning_report["missing_values"]

\* a gap following a peak was filled with the median of the column, which
\* is neither the peak nor the column's mean, and counted
C4_Witness ==
    /\ Imputable("GHI")
    /\ "GHI" \in DOMAIN cleaning_report["missing_values"]
    /\ cleaning_report["missing_values"]["GHI"] = 1
    /\ \E i \in 2..NRows(df) :
          /\ IsNa(call.input.rows[i].c["GHI"])
          /\ call.input.rows[i - 1].c["GHI"] = <<8>>
          /\ df.rows[i].c["GHI"] = <<0>>

\* column col of the table handle_missing_values was given is in its list
\* and present, and every entry of it is missing
AllMissing(col) ==
    /\ ApiReturned("handle_missing_values")
    /\ col \in Range(call.columns) \cap call.input.cols
    /\ NRows(call.input) > 0
    /\ NaCount(Column(call.input, col)) = NRows(call.input)

\* C5: a listed column whose every entry is missing is skipped: it is not
\* recorded in cleaning_report['missing_values'], nothing is written into
\* it, and the other listed columns are still imputed.
C5_AllMissingSkipped ==
    \A col \in DataCols :
        AllMissing(col) =>
            /\ col \notin DOMAIN cleaning_report["missing_values"]
            /\ Column(df, col) = Column(call.input, col)
            /\ \A other \in DataCols \ {col} :
                  Imputable(other) => NaCount(Column(df, other)) = 0

\* the non-missing values of the column are all equal
Constant(d, col) ==
    LET xs == DropNa(Column(d, col))
    IN  \A i \in 1..Len(xs), j \in 1..Len(xs) : xs[i] = xs[j]

ListedConstant(d, columns) ==
    {k \in 1..Len(columns) : columns[k] \in d.cols /\ Constant(d, columns[k])}

\* the list without the entries at the positions in skip
Without(columns, skip) ==
    LET F[i \in 0..Len(columns)] ==
            IF i = 0 THEN <<>>
            ELSE IF i \in skip THEN F[i - 1] ELSE Append(F[i - 1], columns[i])
    IN F[Len(columns)]

\* C6: detect_outliers reports zero outliers for a column whose non-missing
\* values are all equal, whatever the threshold, and remove_outliers returns
\* what it returns for the list without such columns (the whole table when
\* every listed column is one).
C6_ConstantColumnNoOutliers ==
    /\ ApiReturned("detect_outliers") =>
          \A col \in DOMAIN call.result :
              Constant(call.input, col) => call.result[col] = 0
    /\ ApiReturned("remove_outliers") =>
          /\ call.result =
                 RemoveOutliers(call.input,
                                Without(call.columns,
                                        ListedConstant(call.input, call.columns)),
                                call.z_threshold)
          /\ (\A k \in 1..Len(call.columns) :
                  call.columns[k] \in call.input.cols
                      => Constant(call.input, call.columns[k]))
                => /\ ~IsRaised(call.result)
                   /\ call.result.df = call.input

\* remove_outliers dropped a row of a table that holds a constant column
\* with a gap in it
C6_Witness ==
    /\ ApiReturned("remove_outliers")
    /\ call.z_threshold = 1
    /\ {"GHI", "ModA"} \subseteq call.input.cols
    /\ Constant(call.input, "ModA")
    /\ NaCount(Column(call.input, "ModA")) \in 1..(NRows(call.input) - 1)
    /\ ~IsRaised(call.result)
    /\ call.result.removed_count > 0

\* the table a run of clean_solar_data loaded, as imputation returns it
LoadedImputed == HandleMissingValues(call.file.table, COLUMNS_TO_IMPUTE).df

DerivedCols == {"Hour", "Month", "DayOfWeek", "Season"}

\* C7: clean_solar_data runs load, impute, detect, remove, derive in this
\* order: detection is recorded from the imputed table while it still has
\* every loaded row, removal happens before the time columns exist, and a
\* returned table comes with a report of exactly the keys missing_values,
\* outliers_detected and outliers_removed.
C7_PipelineOrder ==
    /\ pc = "impute" =>
          /\ df = call.file.table
          /\ DOMAIN cleaning_report = {}
    /\ pc = "detect" =>
          /\ df = LoadedImputed
          /\ DOMAIN cleaning_report = {"missing_values"}
    /\ pc = "remove" =>
          /\ df = LoadedImputed
          /\ DOMAIN cleaning_report = {"missing_values", "outliers_detected"}
    /\ (pc \in {"remove", "timestamp", "export"} \/ (pc = "return" /\ IsFrame(df))) =>
          cleaning_report["outliers_detected"] =
              DetectOutliers(LoadedImputed, OUTLIER_COLUMNS, Z_THRESHOLD)
    /\ pc = "timestamp" =>
          /\ df.cols \cap DerivedCols = {}
          /\ DOMAIN cleaning_report =
                 {"missing_values", "outliers_detected", "outliers_removed"}
          /\ cleaning_report["outliers_removed"] =
                 NRows(LoadedImputed) - NRows(df)
    /\ (pc \in {"export", "return"} /\ IsFrame(df)) =>
          /\ DOMAIN cleaning_report =
                 {"missing_values", "outliers_detected", "outliers_removed"}
          /\ "Timestamp" \in df.cols => DerivedCols \subseteq df.cols
          /\ NRows(df) = NRows(LoadedImputed) - cleaning_report["outliers_removed"]

\* a run has returned a table after filling a gap, detecting an outlier the
\* returned table no longer holds, removing its row and deriving the time
\* columns
C7_Witness ==
    /\ pc = "return"
    /\ IsFrame(df)
    /\ cleaning_report["missing_values"] # EmptyDict
    /\ cleaning_report["outliers_detected"] # EmptyDict
    /\ DetectOutliers(df, OUTLIER_COLUMNS, Z_THRESHOLD)
           # cleaning_report["outliers_detected"]
    /\ cleaning_report["outliers_removed"] > 0
    /\ DerivedCols \subseteq df.cols

\* the countries of the entries of the result mapping, in order
Countries(entries) == [i \in 1..Len(entries) |-> entries[i].country]

\* s is t with some entries left out
IsSubSeq(s, t) ==
    \E keep \in SUBSET (1..Len(t)) :
        s = LET F[i \in 0..Len(t)] ==
                    IF i = 0 THEN <<>>
                    ELSE IF i \in keep THEN Append(F[i - 1], t[i]) ELSE F[i - 1]
            IN F[Len(t)]

\* C8: in batch mode no failure of one country ends the run with an
\* uncaught exception: the country is skipped, the later ones are still
\* processed, and the result mapping holds its countries in the order of
\* the list.
C8_BatchContinues ==
    /\ pc # "crashed"
    /\ IsSubSeq(Countries(country_data), COUNTRIES)

\* C9: clean_solar_data returns None for a file that does not load, with
\* nothing recorded in the cleaning report and nothing exported; a cleaned
\* CSV is written only by a run that reached its end with a table and was
\* given an export path.
C9_NoneOnLoadFailure ==
    /\ (call.op = "clean_solar_data" /\ call.file.kind # "csv") =>
          /\ pc \in {"load", "return", "idle"}
          /\ pc # "load" => IsNone(df)
          /\ cleaning_report = EmptyDict
          /\ exported = {}
    /\ exported # {} =>
          /\ call.export_path # ""
          /\ exported = {call.export_path}
          /\ pc \in {"return", "idle"}
          /\ call.file.kind = "csv"
          /\ IsFrame(df)
          /\ DOMAIN cleaning_report =
                 {"missing_values", "outliers_detected", "outliers_removed"}

\* a file that does not parse was given with an export path, and
\* clean_solar_data has returned None
C9_Witness ==
    /\ pc = "return"
    /\ call.file.kind = "unparseable"
    /\ call.export_path # ""
    /\ IsNone(df)
    /\ exported = {}

\* the entries of the list that name a column of the table
Present(d, columns) ==
    LET F[i \in 0..Len(columns)] ==
            IF i = 0 THEN <<>>
            ELSE IF columns[i] \in d.cols THEN Append(F[i - 1], columns[i])
            ELSE F[i - 1]
    IN F[Len(columns)]

\* C10: an operation on a table that lacks a column it refers to returns
\* without raising and skips that column: the cleaning operations do what
\* they do for the list of the present columns, process_timestamp returns
\* the table as it is, and the analyzer's operations return a result.
C10_AbsentColumnsSkipped ==
    pc = "api_returned" =>
        /\ call.op = "handle_missing_values" =>
              /\ call.result =
                     HandleMissingValues(call.input,
                                         Present(call.input, call.columns)).df
              /\ call.result.cols = call.input.cols
        /\ call.op = "detect_outliers" =>
              call.result = DetectOutliers(call.input,
                                           Present(call.input, call.columns),
                                           call.z_threshold)
        /\ call.op = "remove_outliers" =>
              /\ call.result = RemoveOutliers(call.input,
                                              Present(call.input, call.columns),
                                              call.z_threshold)
              /\ Present(call.input, call.columns) = <<>> =>
                    /\ ~IsRaised(call.result)
                    /\ call.result.df = call.input
        /\ (call.op = "process_timestamp" /\ "Timestamp" \notin call.input.cols) =>
              call.result = call.input
        /\ call.op = "calculate_summary_statistics" => ~IsRaised(call.result)
        /\ (call.op = "analyze_correlations" /\ "GHI" \notin call.input.cols) =>
              call.result = [items |-> <<>>]
        /\ (call.op = "calculate_solar_potential_metrics"
                /\ "GHI" \notin call.input.cols) =>
              call.result = EmptyDict

\* the rows of table d whose GHI is present and above limit
RowsAbove(d, limit) ==
    {i \in 1..NRows(d) : ~IsNa(d.rows[i].c["GHI"]) /\ d.rows[i].c["GHI"][1] > limit}

\* C17: calculate_solar_potential_metrics returns the empty mapping for a
\* table without a GHI column; otherwise it leaves the table as it is,
\* counts as operational_hours the rows whose GHI is present and > 50 and as
\* high_potential_hours those whose GHI is present and > 400, gives the
\* largest present GHI as peak_ghi, and consistency_score = 100 - cv_ghi.
C17_MetricsOfPresentGhi ==
    pc = "metrics_returned" =>
        /\ df = call.input
        /\ IF "GHI" \notin call.input.cols THEN call.result = EmptyDict
           ELSE /\ call.result.operational_hours =
                       Cardinality(RowsAbove(call.input, 50))
                /\ call.result.high_potential_hours =
                       Cardinality(RowsAbove(call.input, 400))
                /\ \A i \in 1..NRows(call.input) :
                      ~IsNa(call.input.rows[i].c["GHI"]) =>
                          /\ FGe(call.result.peak_ghi,
                                 Fin(call.input.rows[i].c["GHI"][1], 1))
                          /\ \E j \in 1..NRows(call.input) :
                                call.input.rows[j].c["GHI"] =
                                    <<call.result.peak_ghi.n>>
                /\ call.result.consistency_score =
                       FSub(Fin(100, 1), call.result.cv_ghi)

\* the metrics of a table with a missing GHI reading, one at each threshold
\* and one beyond both
C17_Witness ==
    /\ pc = "metrics_returned"
    /\ "GHI" \in call.input.cols
    /\ {call.input.rows[i].c["GHI"] : i \in 1..NRows(call.input)} =
           {NaN, <<50>>, <<400>>, <<750>>}
    /\ call.result.operational_hours = 2
    /\ call.result.high_potential_hours = 1
    /\ call.result.peak_ghi = Fin(750, 1)
    /\ IsFin(call.result.consistency_score)

AnalysisReturned(op) == pc = "analysis_returned" /\ call.op = op

\* the place of a country among the keys of the input mapping
InputPlace(country) ==
    CHOOSE i \in 1..Len(country_data) : country_data[i].country = country

\* the table the input mapping holds for a country
InputTable(country) == country_data[InputPlace(country)].df

\* C11: rank_countries returns its entries in non-increasing order of
\* composite score: score[i] >= score[i+1] for all adjacent entries,
\* whatever the tables (an empty GHI sample or a zero GHI mean included).
C11_SortedByScore ==
    AnalysisReturned("rank_countries") =>
        \A i \in 1..(Len(call.result) - 1) :
            FGe(call.result[i].composite_score,
                call.result[i + 1].composite_score)

\* C12: two countries with equal composite scores are returned by
\* rank_countries in the order in which the input mapping holds them.
C12_StableTies ==
    AnalysisReturned("rank_countries") =>
        \A i, j \in 1..Len(call.result) :
            (/\ i < j
             /\ ~IsNaNf(call.result[i].composite_score)
             /\ call.result[i].composite_score = call.result[j].composite_score)
            => InputPlace(call.result[i].country)
                   < InputPlace(call.result[j].country)

\* two countries tie on different tables, behind a country of a higher
\* score that the mapping holds last
C12_Witness ==
    /\ AnalysisReturned("rank_countries")
    /\ Len(call.result) = 3
    /\ InputPlace(call.result[1].country) = 3
    /\ call.result[2].composite_score = call.result[3].composite_score
    /\ IsFin(call.result[2].composite_score)
    /\ InputTable(call.result[2].country) # InputTable(call.result[3].country)
    /\ FLt(call.result[2].composite_score, call.result[1].composite_score)

WithMetrics ==
    {country_data[i].country :
        i \in {j \in 1..Len(country_data) : "GHI" \in country_data[j].df.cols}}

\* C14: the keys of rank_countries' result are exactly the input countries
\* for which metrics were computed, each once: a country without GHI is left
\* out, not scored; the country_metrics of generate_insights_report hold one
\* entry per input country, in order, empty for a country without GHI.
C14_RankedIffMetrics ==
    /\ AnalysisReturned("rank_countries") =>
          /\ {call.result[i].country : i \in 1..Len(call.result)} = WithMetrics
          /\ Len(call.result) = Cardinality(WithMetrics)
    /\ (AnalysisReturned("generate_insights_report") /\ ~IsRaised(call.result)) =>
          /\ {call.result.rankings[i].country :
                 i \in 1..Len(call.result.rankings)} = WithMetrics
          /\ Len(call.result.country_metrics) = Len(country_data)
          /\ \A i \in 1..Len(country_data) :
                /\ call.result.country_metrics[i].country = country_data[i].country
                /\ (call.result.country_metrics[i].metrics = EmptyDict)
                       <=> (country_data[i].country \notin WithMetrics)

\* an insights report over three countries, the first of them without GHI:
\* two are ranked, three have country_metrics
C14_Witness ==
    /\ AnalysisReturned("generate_insights_report")
    /\ ~IsRaised(call.result)
    /\ Len(country_data) = 3
    /\ "GHI" \notin country_data[1].df.cols
    /\ Len(call.result.rankings) = 2
    /\ Len(call.result.country_metrics) = 3
    /\ call.result.country_metrics[1].metrics = EmptyDict

\* the countries whose table has the metric column with a value in it
Usable(metric) ==
    {i \in 1..Len(country_data) :
        /\ metric \in country_data[i].df.cols
        /\ NaCount(Column(country_data[i].df, metric)) < NRows(country_data[i].df)}

\* C15: compare_countries_statistical returns the empty result, and
\* computes no statistics, unless at least two countries have the metric
\* column with at least one value present in it.
C15_NeedsTwoUsableSamples ==
    (AnalysisReturned("compare_countries_statistical") /\ ~IsRaised(call.result)) =>
        (Cardinality(Usable(call.metric)) < 2 => call.result = EmptyDict)

\* C16: generate_insights_report always returns its five fields:
\* top_country is the first key of rankings, no ranked country scoring
\* higher, or None when nothing is ranked; statistical_significance is the
\* ANOVA flag of the GHI comparison, or False when that did not run.
C16_InsightsBundle ==
    AnalysisReturned("generate_insights_report") =>
        /\ ~IsRaised(call.result)
        /\ DOMAIN call.result =
               {"top_country", "statistical_significance", "country_metrics",
                "rankings", "statistical_tests"}
        /\ call.result.rankings = RankCountries(country_data)
        /\ IF Len(call.result.rankings) = 0 THEN call.result.top_country = "None"
           ELSE /\ call.result.top_country = call.result.rankings[1].country
                /\ \A i \in 2..Len(call.result.rankings) :
                      FGe(call.result.rankings[1].composite_score,
                          call.result.rankings[i].composite_score)
        /\ call.result.statistical_significance =
               IF call.result.statistical_tests = EmptyDict THEN FALSE
               ELSE call.result.statistical_tests.anova.significant

\* C18: every entry rank_countries returns has a finite composite score: a
\* country whose GHI sample is empty or has mean 0 is not ranked with a NaN
\* or infinite score.
C18_FiniteScores ==
    AnalysisReturned("rank_countries") =>
        \A i \in 1..Len(call.result) : IsFin(call.result[i].composite_score)

\* the day of the week of a date by Zeller's congruence, Monday = 0
ZellerMonday(y, m, d) ==
    LET mm == IF m < 3 THEN m + 12 ELSE m
        yy == IF m < 3 THEN y - 1 ELSE y
        K == yy % 100
        J == yy \div 100
        h == (d + ((13 * (mm + 1)) \div 5) + K + (K \div 4) + (J \div 4) + 5 * J) % 7
    IN  (h + 5) % 7

\* the season the months map to
SeasonOfMonth(month) ==
    IF month \in {12, 1, 2} THEN 1
    ELSE IF month \in {3, 4, 5} THEN 2
    ELSE IF month \in {6, 7, 8} THEN 3
    ELSE 4

TimeReturned ==
    /\ pc = "time_returned"
    /\ ~IsRaised(call.result)
    /\ "Timestamp" \in call.input.cols

\* row i of the processed table has the features of its timestamp ts
FeaturesOf(i, ts) ==
    LET c == call.result.rows[i].c
    IN  /\ c["Season"] = <<((ts[2] % 12) + 3) \div 3>>
        /\ c["Season"][1] \in 1..4
        /\ c["Season"][1] = SeasonOfMonth(ts[2])
        /\ c["Hour"] = <<ts[4]>> /\ ts[4] \in 0..23
        /\ c["Month"] = <<ts[2]>> /\ ts[2] \in 1..12
        /\ c["DayOfWeek"] = <<ZellerMonday(ts[1], ts[2], ts[3])>>
        /\ c["DayOfWeek"][1] \in 0..6

\* C19 (as stated): on every row of the table process_timestamp returns,
\* Season = ((month mod 12) + 3) div 3 is in 1..4 (12, 1, 2 -> 1; 3, 4, 5 -> 2;
\* 6, 7, 8 -> 3; 9, 10, 11 -> 4), Hour is in 0..23, Month in 1..12 and
\* DayOfWeek in 0..6 with 0 = Monday.
C19_FeaturesOnEveryRow ==
    TimeReturned =>
        \A i \in 1..NRows(call.result) :
            /\ ~IsNa(call.result.rows[i].c["Season"])
            /\ FeaturesOf(i, call.input.rows[i].c["Timestamp"])

\* C19 (amended): the same on every row whose Timestamp is present; a row
\* whose Timestamp is missing has missing Hour, Month, DayOfWeek and Season.
C19_FeaturesOfPresentTimestamps ==
    TimeReturned =>
        /\ NRows(call.result) = NRows(call.input)
        /\ \A i \in 1..NRows(call.result) :
              LET ts == call.input.rows[i].c["Timestamp"]
              IN  IF IsNa(ts)
                  THEN \A c \in {"Hour", "Month", "DayOfWeek", "Season"} :
                          IsNa(call.result.rows[i].c[c])
                  ELSE FeaturesOf(i, ts)

\* a December Thursday at 23:00 is in season 1, followed by a row without a
\* timestamp
C19_Witness ==
    /\ TimeReturned
    /\ NRows(call.result) = 2
    /\ call.input.rows[1].c["Timestamp"] = <<2023, 12, 28, 23>>
    /\ call.result.rows[1].c["Season"] = <<1>>
    /\ call.result.rows[1].c["DayOfWeek"] = <<3>>
    /\ IsNa(call.input.rows[2].c["Timestamp"])
    /\ IsNa(call.result.rows[2].c["Season"])

CorrReturned ==
    /\ pc = "corr_returned"
    /\ ~IsRaised(call.result)

\* the columns of the items of a returned mapping
Keys(items) == {items[i].col : i \in 1..Len(items)}

\* C20: analyze_correlations returns exactly the numeric columns other than
\* the target with |r| >= 0.3 (none with an undefined r), each once with its
\* correlation, in non-increasing order of the correlation; it returns the
\* empty mapping when the target column is absent.
C20_SignificantDescending ==
    CorrReturned =>
        LET d == call.input
            t == call.target_column
            res == call.result.items
        IN  IF t \notin d.cols THEN res = <<>>
            ELSE /\ Keys(res) = {c \in NumericCols(d) \ {t} :
                                    CorrAtLeast(PairsOf(d, c, t), 3, 10)}
                 /\ Len(res) = Cardinality(Keys(res))
                 /\ \A i \in 1..Len(res) :
                       /\ res[i].corr = Corr(PairsOf(d, res[i].col, t))
                       /\ ~IsNaNf(res[i].corr)
                 /\ \A i \in 1..(Len(res) - 1) :
                       FGe(res[i].corr, res[i + 1].corr)

\* Tamb (r about 0.79) is listed before ModA (r about -0.93), both
\* correlated with a GHI of 0, 3, 8
C20_Witness ==
    /\ CorrReturned
    /\ call.target_column = "GHI"
    /\ call.input.cols = {"GHI", "ModA", "Tamb"}
    /\ Column(call.input, "GHI") = <<<<0>>, <<3>>, <<8>>>>
    /\ Len(call.result.items) = 2
    /\ call.result.items[1].col = "Tamb"
    /\ call.result.items[2].col = "ModA"
    /\ FLt(call.result.items[2].corr, Fin(0, 1))
    /\ FLt(Fin(0, 1), call.result.items[1].corr)
    /\ FLt(FAbs(call.result.items[1].corr), FAbs(call.result.items[2].corr))

\* a column correlated below the threshold (r about -0.14), a column with
\* a single reading and a text column are left out; the result is empty
C20_WitnessLeftOut ==
    /\ CorrReturned
    /\ call.target_column = "GHI"
    /\ call.input.cols = {"GHI", "ModA", "Timestamp"}
    /\ Column(call.input, "GHI") = <<<<0>>, <<3>>, <<8>>>>
    /\ Column(call.input, "ModA") = <<<<0>>, <<8>>, <<0>>>>
    /\ call.result.items = <<>>

\* whether the value of row i of table d in column col is present and has
\* |Z| > z_threshold among the present values of the column
FlaggedRow(d, col, i, z_threshold) ==
    LET xs == DropNa(Column(d, col))
        n == Len(xs)
        S == Sum(xs)
        cell == d.rows[i].c[col]
    IN  /\ ~IsNa(cell)
        /\ ZFlag(n, S, n * SumSq(xs) - S * S, cell[1], z_threshold)

\* the rows of d whose value in col is missing or not flagged, in order
UnflaggedRows(d, col, z_threshold) ==
    LET F[i \in 0..NRows(d)] ==
            IF i = 0 THEN <<>>
            ELSE LET prev == F[i - 1]
                 IN  IF FlaggedRow(d, col, i, z_threshold) THEN prev
                     ELSE Append(prev, d.rows[i])
    IN F[NRows(d)]

\* C21: detection and removal use only the non-missing values of a column:
\* detect_outliers counts the flagged present values, and when the one
\* checked column of a table holds a missing value and a value with
\* |Z| > threshold, remove_outliers returns without raising the table
\* without exactly the rows of the flagged values, every row with a missing
\* value kept.
C21_MissingValuesAligned ==
    pc = "api_returned" =>
        /\ call.op = "detect_outliers" =>
              \A col \in DOMAIN call.result :
                  call.result[col] =
                      Cardinality({i \in 1..NRows(call.input) :
                                      FlaggedRow(call.input, col, i,
                                                 call.z_threshold)})
        /\ (call.op = "remove_outliers"
                /\ Len(Present(call.input, call.columns)) = 1) =>
              LET col == Present(call.input, call.columns)[1]
              IN  (/\ NaCount(Column(call.input, col)) > 0
                   /\ \E i \in 1..NRows(call.input) :
                         FlaggedRow(call.input, col, i, call.z_threshold))
                  => /\ ~IsRaised(call.result)
                     /\ call.result.df.rows =
                            UnflaggedRows(call.input, col, call.z_threshold)

\* C22: detect_outliers leaves the table and the cleaning report as they
\* were and returns a count (possibly 0) for exactly the requested columns
\* that are present and numeric; and remove_outliers, on the same table with
\* the same threshold, drops for the first column it processes as many rows
\* as detect_outliers counts for that column.
C22_DetectNonDestructive ==
    pc = "api_returned" =>
        /\ call.op = "detect_outliers" =>
              /\ df = call.input
              /\ cleaning_report = EmptyDict
              /\ DOMAIN call.result =
                     {col \in Range(call.columns) :
                         col \in NumericCols(call.input)}
              /\ \A col \in DOMAIN call.result :
                     call.result[col] \in 0..NRows(call.input)
        /\ (call.op = "remove_outliers"
                /\ Len(Present(call.input, call.columns)) = 1) =>
              LET col == Present(call.input, call.columns)[1]
              IN  /\ ~IsRaised(call.result)
                  /\ call.result.removed_count =
                         DetectOutliers(call.input, call.columns,
                                        call.z_threshold)[col]

\* the number of rows of a country's input table with a GHI reading
GhiReadings(country) ==
    NRows(InputTable(country)) - NaCount(Column(InputTable(country), "GHI"))

\* 0 <= high <= operational <= the country's number of GHI readings
HoursBounded(country, high, operational) ==
    /\ 0 <= high
    /\ high <= operational
    /\ operational <= GhiReadings(country)

\* C23: the metrics of every table with a GHI column have
\* 0 <= high_potential_hours <= operational_hours <= number of non-missing
\* GHI rows, and so has the high_potential_hours of every ranking entry.
C23_HoursBounded ==
    /\ (AnalysisReturned("generate_insights_report") /\ ~IsRaised(call.result)) =>
          \A i \in 1..Len(call.result.country_metrics) :
              LET e == call.result.country_metrics[i]
              IN  e.metrics # EmptyDict =>
                      HoursBounded(e.country, e.metrics.high_potential_hours,
                                   e.metrics.operational_hours)
    /\ AnalysisReturned("rank_countries") =>
          \A i \in 1..Len(call.result) :
              LET e == call.result[i]
              IN  /\ HoursBounded(e.country, e.high_potential_hours,
                                  e.metrics.operational_hours)
                  /\ e.high_potential_hours = e.metrics.high_potential_hours

\* a ranked country with four rows, three GHI readings, two of them
\* operational and one of high potential
C23_Witness ==
    /\ AnalysisReturned("rank_countries")
    /\ \E i \in 1..Len(call.result) :
          /\ NRows(InputTable(call.result[i].country)) = 4
          /\ GhiReadings(call.result[i].country) = 3
          /\ call.result[i].metrics.operational_hours = 2
          /\ call.result[i].high_potential_hours = 1

\* C24: every value of the country-to-table mapping a batch driver builds
\* is a cleaned table: a country whose load or clean returned None is never
\* stored in it.
C24_OnlyTablesStored ==
    driver \in {"process_all_countries", "batch_process_countries"} =>
        \A i \in 1..Len(country_data) : IsFrame(country_data[i].df)

\* C25: a final analysis report file is written only after a comparative
\* analysis over at least two cleaned countries has returned a non-empty
\* insights bundle; with fewer than two cleaned countries no report file is
\* written, from main() and from run_quick_start().
C25_ReportOnlyAfterInsights ==
    (driver \in {"main", "run_quick_start"} /\ FinalReport \in exported) =>
        /\ Len(country_data) >= 2
        /\ ~IsNone(call.insights)
        /\ call.insights \in GenerateInsightsReport(country_data)

====
